---- MODULE Spec2Model ----
(***************************************************************************)
(* Model of the menu acquisition pipeline of ForFiveCoffeeServer           *)
(* (src/server.js, the puppeteer-enabled server class, lines 913-2051):    *)
(* the cache (menuCache, cacheTimestamp), the orchestrator fetchMenuData   *)
(* with its three stages fetchFromAPI, fetchWithPuppeteer and              *)
(* fetchFromWebsite, and the query / clear operations that use them.       *)
(*                                                                         *)
(* Every `await` of the code is a point where another request may run, so  *)
(* a query is a process whose steps are the segments between awaits.       *)
(* Strings are TLA+ strings; TLC treats them as sequences of characters    *)
(* (Len, \o, SubSeq).                                                      *)
(***************************************************************************)
EXTENDS Integers, Sequences, FiniteSets, TLC

VARIABLES
    menuCache,       \* this.menuCache: Null or a snapshot annotated by updateCache
    cacheTimestamp,  \* this.cacheTimestamp: NoNumber or the time (ms) of the last updateCache
    now,             \* the wall clock, in milliseconds
    ticks,           \* number of clock advances so far (bounded)
    runs,            \* number of queries started so far (bounded)
    pc,              \* pc[q]: where query q stands
    apiIdx,          \* apiIdx[q]: index into apiUrls of the endpoint q asks next
    browser,         \* browser[q]: the browser session of q's rendered-page stage
    stages,          \* stages[q]: the stages q's acquisition run has invoked, in order
    outcome,         \* outcome[q]: what fetchMenuData handed to q's caller
    reply,           \* the response of the cache management request being answered
    afterClear,      \* what happened to the cache since the last clear, until a query starts
    call,            \* one application of an operation to given arguments, and its result
    order            \* the queries under way, in the order their calls of fetchMenuData began

vars == <<menuCache, cacheTimestamp, now, ticks, runs, pc, apiIdx, browser,
          stages, outcome, reply, afterClear, call, order>>

\* what the query pipeline leaves alone
aux == <<reply, afterClear, call, order>>

-----------------------------------------------------------------------------
(* Bounds of the model *)

MaxRuns == 2      \* queries started in one behaviour
MaxTicks == 2     \* clock advances in one behaviour

\* The requests that can be in flight at the same time: two are enough for
\* acquisition runs to overlap.
Queries == {"q1", "q2"}

(* Program constants *)

cacheExpiryMinutes == 24 * 60
MsPerMinute == 1000 * 60
MaxNameLength == 500
NumApiUrls == 4

(* JavaScript values.  A value that can be null or undefined is modelled in   *)
(* the type of its non-null values: an object by the record Null, a string by *)
(* the string Undefined, a number or a Date by NoNumber.                      *)
Null == [null |-> TRUE]
Undefined == "undefined"
NoNumber == 0 - 1

-----------------------------------------------------------------------------
(* Strings and arrays *)

\* String.prototype.includes
Includes(s, sub) ==
    \E i \in 1..(Len(s) - Len(sub) + 1) : SubSeq(s, i, i + Len(sub) - 1) = sub

\* String.prototype.startsWith
StartsWith(s, pre) == Len(pre) <= Len(s) /\ SubSeq(s, 1, Len(pre)) = pre

RECURSIVE Repeat(_, _)
Repeat(c, n) ==
    IF n = 0 THEN ""
    ELSE LET half == Repeat(c, n \div 2)
         IN IF n % 2 = 0 THEN half \o half ELSE half \o half \o c

\* [...new Set(seq)], and Array.from of a Set filled in the order of seq: the
\* distinct elements of seq in the order of their first occurrence
RECURSIVE Distinct(_)
Distinct(seq) ==
    IF seq = <<>> THEN <<>>
    ELSE LET init == Distinct(SubSeq(seq, 1, Len(seq) - 1))
             last == seq[Len(seq)]
         IN IF \E i \in 1..Len(init) : init[i] = last THEN init
            ELSE Append(init, last)

Range(seq) == {seq[i] : i \in 1..Len(seq)}

\* items.map(item => item.category)
Categories(items) == [i \in 1..Len(items) |-> items[i].category]

RECURSIVE Flatten(_)
Flatten(seqs) ==
    IF seqs = <<>> THEN <<>> ELSE Head(seqs) \o Flatten(Tail(seqs))

\* v || d, for a string v
OrElse(v, d) == IF v \in {Undefined, ""} THEN d ELSE v

-----------------------------------------------------------------------------
(* Cache: isCacheValid, updateCache, clearCache *)

IsCacheValidLax(cache, ts, t) ==
    /\ cache # Null
    /\ ts # NoNumber
    /\ (t - ts) \div MsPerMinute <= cacheExpiryMinutes

IsCacheValidOffByOne(cache, ts, t) ==
    /\ cache # Null
    /\ ts # NoNumber
    /\ (t - ts) \div MsPerMinute < cacheExpiryMinutes - 1

\* isCacheValid at time t.  cacheAge = (now - this.cacheTimestamp) / (1000 * 60)
\* is a fractional number of minutes; cacheExpiryMinutes is a whole number, so
\* cacheAge < cacheExpiryMinutes exactly when the whole minutes of cacheAge are.
IsCacheValidAt(cache, ts, t) ==
    /\ cache # Null
    /\ ts # NoNumber
    /\ (t - ts) \div MsPerMinute < cacheExpiryMinutes

isCacheValid == IsCacheValidAt(menuCache, cacheTimestamp, now)

\* { ...menuData, cached: true, cacheTimestamp: new Date().toISOString() }
Annotated(menuData, t) ==
    [menuData EXCEPT !.cached = TRUE, !.cacheTimestamp = t]

-----------------------------------------------------------------------------
(* Snapshots *)

\* The object a stage returns.  source is Undefined when the stage sets none;
\* cached and cacheTimestamp are set by updateCache only.
Snapshot(items, categories, t, source) ==
    [items |-> items, categories |-> categories, lastUpdated |-> t,
     source |-> source, cached |-> FALSE, cacheTimestamp |-> NoNumber]

MenuItem(n, d, p, c) == [name |-> n, description |-> d, price |-> p, category |-> c]

-----------------------------------------------------------------------------
(* Stage 1: fetchFromAPI and parseAPIResponse *)

DigitChars == <<"0", "1", "2", "3", "4", "5", "6", "7", "8", "9">>

RECURSIVE NatToString(_)
NatToString(n) ==
    IF n < 10 THEN DigitChars[n + 1]
    ELSE NatToString(n \div 10) \o DigitChars[(n % 10) + 1]

\* (p / 100).toFixed(2) for an integer number p >= 0 of minor units
ToFixed2(p) ==
    NatToString(p \div 100) \o "." \o DigitChars[((p % 100) \div 10) + 1]
        \o DigitChars[(p % 10) + 1]

\* item.price ? `$${(item.price / 100).toFixed(2)}` : 'Price not available'
FormatPrice(price) ==
    IF price \in {NoNumber, 0} THEN "Price not available"
    ELSE "$" \o ToFixed2(price)

\* the object pushed for one item of the response; cat is category.name in the
\* nested shapes and item.category in the flat shape
ApiItem(item, cat) ==
    MenuItem(OrElse(item.name, "Unknown Item"), OrElse(item.description, ""),
             FormatPrice(item.price), OrElse(cat, "General"))

\* data.menu.forEach(category => ...) and data.categories.forEach(...)
NestedItems(cats) ==
    Flatten([i \in 1..Len(cats) |->
        IF cats[i].items # Null
        THEN [j \in 1..Len(cats[i].items.array) |->
                 ApiItem(cats[i].items.array[j], cats[i].name)]
        ELSE <<>>])

\* reading a property of a null array element throws a TypeError
NestedThrows(cats) ==
    \E i \in 1..Len(cats) :
        \/ cats[i] = Null
        \/ cats[i].items # Null /\ Null \in Range(cats[i].items.array)

ParseThrows(data) ==
    IF data.menu # Null THEN NestedThrows(data.menu.array)
    ELSE IF data.items # Null THEN Null \in Range(data.items.array)
    ELSE IF data.categories # Null THEN NestedThrows(data.categories.array)
    ELSE FALSE

parseAPIResponse(data) ==
    IF data.menu # Null THEN NestedItems(data.menu.array)
    ELSE IF data.items # Null
    THEN [i \in 1..Len(data.items.array) |->
             ApiItem(data.items.array[i], data.items.array[i].category)]
    ELSE IF data.categories # Null THEN NestedItems(data.categories.array)
    ELSE <<>>

\* What one endpoint contributes: the items parsed from its response, or none
\* when the request fails, the body is no object, or parsing throws (the inner
\* try/catch moves on to the next endpoint).
EndpointItems(resp) ==
    IF resp.kind # "object" THEN <<>>
    ELSE IF ParseThrows(resp.data) THEN <<>>
    ELSE parseAPIResponse(resp.data)

\* the object fetchFromAPI returns for a non-empty item list
ApiSnapshot(menuItems, t) ==
    Snapshot(menuItems, Distinct(Categories(menuItems)), t, Undefined)

RECURSIVE FetchFromAPITriesAll(_, _, _)
FetchFromAPITriesAll(responses, i, t) ==
    IF i > Len(responses) THEN [requests |-> <<>>, value |-> Null]
    ELSE LET menuItems == EndpointItems(responses[i])
             rest == FetchFromAPITriesAll(responses, i + 1, t)
         IN [requests |-> <<i>> \o rest.requests,
             value |-> IF rest.value = Null /\ Len(menuItems) > 0
                       THEN ApiSnapshot(menuItems, t) ELSE rest.value]

\* for (const url of apiUrls) { ... } return null, from the i-th url on, given
\* the response of every endpoint: the requests made, in order, and the value
\* returned
RECURSIVE FetchFromAPIFrom(_, _, _)
FetchFromAPIFrom(responses, i, t) ==
    IF i > Len(responses) THEN [requests |-> <<>>, value |-> Null]
    ELSE LET menuItems == EndpointItems(responses[i])
         IN IF Len(menuItems) > 0
            THEN [requests |-> <<i>>, value |-> ApiSnapshot(menuItems, t)]
            ELSE LET rest == FetchFromAPIFrom(responses, i + 1, t)
                 IN [requests |-> <<i>> \o rest.requests, value |-> rest.value]

fetchFromAPI(responses, t) == FetchFromAPIFrom(responses, 1, t)

(* Responses the endpoints can give.  A property that is an array is         *)
(* [array |-> <<...>>]; a property that is missing or no array is Null.      *)

Array(seq) == [array |-> seq]
RawItem(n, d, p, c) == [name |-> n, description |-> d, price |-> p, category |-> c]
RawCategory(n, its) == [name |-> n, items |-> its]
Body(m, i, c) == [menu |-> m, items |-> i, categories |-> c]

ApiBodies ==
    { Body(Array(<<RawCategory("COFFEE", Array(<<RawItem("Latte", "Milk", 450, Undefined)>>))>>),
           Null, Null),
      Body(Null,
           Array(<<RawItem("Latte", Undefined, 450, "COFFEE"),
                   RawItem("Chai", "", 0, "TEA"),
                   RawItem("Mocha", "", 5, "COFFEE")>>),
           Null),
      Body(Null, Array(<<RawItem("tenant config", Undefined, NoNumber, Undefined)>>), Null),
      Body(Null, Array(<<>>),
           Array(<<RawCategory("TEA", Array(<<RawItem("Chai", "", 300, Undefined)>>))>>)),
      Body(Array(<<Null>>), Null, Null) }

ApiResponses ==
    {[kind |-> "error"], [kind |-> "string"]}
        \cup {[kind |-> "object", data |-> d] : d \in ApiBodies}

-----------------------------------------------------------------------------
(* Stage 2: fetchWithPuppeteer *)

CountSpaces(s) == Cardinality({i \in 1..Len(s) : SubSeq(s, i, i) = " "})

\* the in-page filter of candidate names
IsNavigationText(name, categoryName) ==
    \/ Includes(name, "Boston")
    \/ Includes(name, "Change Locations")
    \/ Includes(name, "Pickup Details")
    \/ Includes(name, "State Street")
    \/ Includes(name, "Search")
    \/ Includes(name, "200 State")
    \/ Includes(name, "Edit")
    \/ Includes(name, "ASAP")
    \/ StartsWith(name, categoryName)
    \/ Includes(name, categoryName \o "Search")
    \/ Includes(name, "  ")
    \/ CountSpaces(name) + 1 > 5
    \/ Len(name) < 3
    \/ Len(name) > 50

\* the items page.evaluate returns for one category from the candidates found
\* in the current view (name, description and price already cut from the text)
RECURSIVE CategoryItems(_, _)
CategoryItems(categoryName, cands) ==
    IF cands = <<>> THEN <<>>
    ELSE LET c == Head(cands)
             rest == CategoryItems(categoryName, Tail(cands))
         IN IF ~IsNavigationText(c.name, categoryName) /\ Len(c.name) > 2 /\ Len(c.name) < 80
            THEN <<MenuItem(c.name, c.description, c.price, categoryName)>> \o rest
            ELSE rest

\* one iteration of the loop over the categories: a tab that cannot be clicked
\* and an error thrown in the iteration both contribute nothing; the wait for
\* the prices of the category (pass.ready) has a catch of its own, so that the
\* extraction follows it whether it ended or timed out
PassItems(categoryName, pass) ==
    IF pass.click = "true" /\ pass.extract = "ok"
    THEN CategoryItems(categoryName, pass.found)
    ELSE <<>>

\* the loop over the categories as if the first pass that contributes nothing
\* ended it
AllItemsUntilFirstFailure(page) ==
    LET failed == {i \in 1..Len(page.tabs) :
                      page.passes[i].click # "true" \/ page.passes[i].extract # "ok"}
        last == IF failed = {} THEN Len(page.tabs)
                ELSE (CHOOSE i \in failed : \A j \in failed : i <= j) - 1
    IN Flatten([i \in 1..last |-> PassItems(page.tabs[i], page.passes[i])])

\* the marker wait before the loop (page.marker) is inside a try block of its
\* own: the loop runs whether the marker showed up or the wait timed out
AllItems(page) ==
    Flatten([i \in 1..Len(page.tabs) |-> PassItems(page.tabs[i], page.passes[i])])

DedupKey(item) == item.name \o "-" \o item.category

RECURSIVE UniqueItemsKeepsLast(_)
UniqueItemsKeepsLast(allItems) ==
    IF allItems = <<>> THEN <<>>
    ELSE LET rest == Tail(allItems)
         IN IF \E i \in 1..Len(rest) : DedupKey(rest[i]) = DedupKey(Head(allItems))
            THEN UniqueItemsKeepsLast(rest)
            ELSE <<Head(allItems)>> \o UniqueItemsKeepsLast(rest)

\* allItems.forEach(item => { if (!seen.has(key)) { seen.add(key); uniqueItems.push(item) } })
RECURSIVE UniqueItems(_)
UniqueItems(allItems) ==
    IF allItems = <<>> THEN <<>>
    ELSE LET init == UniqueItems(SubSeq(allItems, 1, Len(allItems) - 1))
             last == allItems[Len(allItems)]
         IN IF \E i \in 1..Len(init) : DedupKey(init[i]) = DedupKey(last) THEN init
            ELSE Append(init, last)

\* the value the try block of fetchWithPuppeteer produces once the browser is
\* launched: null when a step throws or nothing is found
PuppeteerResult(page, t) ==
    IF page.kind = "throw" THEN Null
    ELSE LET uniqueItems == UniqueItems(AllItems(page))
         IN IF Len(uniqueItems) > 0
            THEN Snapshot(uniqueItems, page.tabs, t, "puppeteer")
            ELSE Null

(* Pages the browser can show *)

Candidate(n, p) == [name |-> n, description |-> "", price |-> p]

Found(cands) == [click |-> "true", ready |-> "ready", extract |-> "ok", found |-> cands]

Passes ==
    { [click |-> "false", ready |-> "ready", extract |-> "ok", found |-> <<>>],
      [click |-> "throw", ready |-> "ready", extract |-> "ok", found |-> <<>>],
      [click |-> "true", ready |-> "ready", extract |-> "throw", found |-> <<>>],
      Found(<<Candidate("Boston", "$1.00")>>),
      Found(<<Candidate("Latte", "$4.50"), Candidate("Latte", "$4.50 - $5.50")>>) }

TabLists == {<<>>, <<"COFFEE", "TEA">>, <<"COFFEE", "COFFEE">>}

Pages ==
    {[kind |-> "throw"]}
        \cup UNION {{[kind |-> "ok", marker |-> "found", tabs |-> tabs, passes |-> ps] :
                        ps \in [1..Len(tabs) -> Passes]} : tabs \in TabLists}

-----------------------------------------------------------------------------
(* Stage 3: fetchFromWebsite, isJavaScriptCode, parseMenuFromText *)

UpperChars ==
    {"A", "B", "C", "D", "E", "F", "G", "H", "I", "J", "K", "L", "M",
     "N", "O", "P", "Q", "R", "S", "T", "U", "V", "W", "X", "Y", "Z"}

SpaceChars == {" ", "\t"}

Char(s, i) == SubSeq(s, i, i)

IsDigit(c) == \E d \in 1..Len(DigitChars) : DigitChars[d] = c

\* String.prototype.trim
RECURSIVE Trim(_)
Trim(s) ==
    IF s = "" THEN s
    ELSE IF Char(s, 1) \in SpaceChars THEN Trim(SubSeq(s, 2, Len(s)))
    ELSE IF Char(s, Len(s)) \in SpaceChars THEN Trim(SubSeq(s, 1, Len(s) - 1))
    ELSE s

\* line.match(/^[A-Z][A-Z\s&]+$/) && line.length < 50
IsCategoryHeader(line) ==
    /\ Len(line) >= 2
    /\ Char(line, 1) \in UpperChars
    /\ \A i \in 2..Len(line) : Char(line, i) \in UpperChars \cup SpaceChars \cup {"&"}
    /\ Len(line) < 50

\* line.match(/.*\$\d+\.?\d*/)
HasPrice(line) ==
    \E i \in 1..(Len(line) - 1) : Char(line, i) = "$" /\ IsDigit(Char(line, i + 1))

\* position of the first c in s at or after position i; Len(s) + 1 when none
IndexFrom(s, c, i) ==
    LET at == {k \in i..Len(s) : Char(s, k) = c}
    IN IF at = {} THEN Len(s) + 1 ELSE CHOOSE k \in at : \A j \in at : k <= j

\* line.split('$')[0] and line.split('$')[1], for a line that holds a '$'
SplitPart0(line) == SubSeq(line, 1, IndexFrom(line, "$", 1) - 1)
SplitPart1(line) ==
    LET first == IndexFrom(line, "$", 1)
    IN SubSeq(line, first + 1, IndexFrom(line, "$", first + 1) - 1)

RECURSIVE ParseLinesKeepsFirstHeader(_, _)
ParseLinesKeepsFirstHeader(lines, currentCategory) ==
    IF lines = <<>> THEN <<>>
    ELSE LET line == Head(lines)
             name == Trim(SplitPart0(line))
             price == "$" \o Trim(SplitPart1(line))
         IN IF IsCategoryHeader(line)
            THEN ParseLinesKeepsFirstHeader(Tail(lines),
                     IF currentCategory = "General" THEN line ELSE currentCategory)
            ELSE IF HasPrice(line) /\ Len(name) > 2
            THEN <<MenuItem(name, "", price, currentCategory)>>
                     \o ParseLinesKeepsFirstHeader(Tail(lines), currentCategory)
            ELSE ParseLinesKeepsFirstHeader(Tail(lines), currentCategory)

\* the loop of parseMenuFromText over the trimmed, non-empty lines
RECURSIVE ParseLines(_, _)
ParseLines(lines, currentCategory) ==
    IF lines = <<>> THEN <<>>
    ELSE LET line == Head(lines)
             name == Trim(SplitPart0(line))
             price == "$" \o Trim(SplitPart1(line))
         IN IF IsCategoryHeader(line) THEN ParseLines(Tail(lines), line)
            ELSE IF HasPrice(line) /\ Len(name) > 2
            THEN <<MenuItem(name, "", price, currentCategory)>>
                     \o ParseLines(Tail(lines), currentCategory)
            ELSE ParseLines(Tail(lines), currentCategory)

\* text.split('\n').map(line => line.trim()).filter(line => line.length > 0);
\* the text is given as the sequence of its lines
parseMenuFromText(text) ==
    ParseLines(SelectSeq([i \in 1..Len(text) |-> Trim(text[i])], LAMBDA l : Len(l) > 0),
               "General")

isJavaScriptCodeThroughout(items) ==
    /\ Len(items) # 0
    /\ \A i \in 1..Len(items) :
          \/ Includes(items[i].name, "window.")
          \/ Includes(items[i].name, "LOCATIONS")
          \/ Includes(items[i].name, "tenant")
          \/ Includes(items[i].name, "coordinates")
          \/ Len(items[i].name) > MaxNameLength

isJavaScriptCode(items) ==
    /\ Len(items) # 0
    /\ \E i \in 1..Len(items) :
          \/ Includes(items[i].name, "window.")
          \/ Includes(items[i].name, "LOCATIONS")
          \/ Includes(items[i].name, "tenant")
          \/ Includes(items[i].name, "coordinates")
          \/ Len(items[i].name) > MaxNameLength

\* the object built for one matched container; the fields of elem are what
\* extractText finds in it ('' when no field selector has text)
ElementItem(elem) ==
    MenuItem(Trim(elem.name),
             IF elem.description # "" THEN Trim(elem.description) ELSE "",
             IF elem.price # "" THEN Trim(elem.price) ELSE "Price not available",
             OrElse(Trim(OrElse(elem.section, OrElse(elem.category, "General"))),
                    "General"))

RECURSIVE ElementItems(_)
ElementItems(elems) ==
    IF elems = <<>> THEN <<>>
    ELSE IF Head(elems).name # "" THEN <<ElementItem(Head(elems))>> \o ElementItems(Tail(elems))
    ELSE ElementItems(Tail(elems))

NumSelectors == 7

\* the selectors of possibleSelectors that match at least one element
Matching(doc) == {i \in 1..NumSelectors : Len(doc.hits[i]) > 0}

FirstMatching(doc) == CHOOSE i \in Matching(doc) : \A j \in Matching(doc) : i <= j

WebsiteItemsFallsThrough(doc) ==
    LET yielding == {i \in Matching(doc) : ElementItems(doc.hits[i]) # <<>>}
    IN IF yielding # {}
       THEN ElementItems(doc.hits[CHOOSE i \in yielding : \A j \in yielding : i <= j])
       ELSE parseMenuFromText(doc.bodyText)

WebsiteItemsMergesSelectors(doc) ==
    IF Matching(doc) # {}
    THEN Flatten([i \in 1..NumSelectors |-> ElementItems(doc.hits[i])])
    ELSE parseMenuFromText(doc.bodyText)

\* menuItems of fetchFromWebsite for a fetched document
WebsiteItems(doc) ==
    IF Matching(doc) # {} THEN ElementItems(doc.hits[FirstMatching(doc)])
    ELSE parseMenuFromText(doc.bodyText)

WebsiteFailsUnchecked(doc) == doc.kind = "error"

\* fetchFromWebsite throws: the request fails, or no valid items are extracted
WebsiteFails(doc) ==
    \/ doc.kind = "error"
    \/ Len(WebsiteItems(doc)) = 0
    \/ isJavaScriptCode(WebsiteItems(doc))

\* the object fetchFromWebsite returns when it does not throw
WebsiteSnapshot(doc, t) ==
    Snapshot(WebsiteItems(doc), Distinct(Categories(WebsiteItems(doc))), t, "static_html")

(* Documents the site can serve *)

Element(n, p, sec, cat) ==
    [name |-> n, description |-> "", price |-> p, section |-> sec, category |-> cat]

Hits(i, elems) == [k \in 1..NumSelectors |-> IF k = i THEN elems ELSE <<>>]

Html(hits, text) == [kind |-> "html", hits |-> hits, bodyText |-> text]

Documents ==
    { [kind |-> "error"],
      Html(Hits(1, <<Element("Espresso", "$3.50", "", "")>>), <<"Espresso $3.50">>),
      Html([Hits(2, <<Element("Latte", "", "COFFEE", "")>>) EXCEPT
                ![1] = <<Element("", "$1.00", "", "")>>], <<>>),
      Html(Hits(3, <<Element("Latte", "$4.50", "", "COFFEE"),
                     Element("", "", "", ""),
                     Element("Chai", "$3.00", "TEA", "DRINKS")>>), <<>>),
      Html(Hits(1, <<Element("window.LOCATIONS", "", "", "")>>), <<>>),
      Html(Hits(0, <<>>), <<"COFFEE", "  Espresso $3.50", "", "TEA", "Green Tea $2.50">>),
      Html(Hits(0, <<>>), <<"Espresso $3.50", "var tenant = $1">>),
      Html(Hits(0, <<>>), <<Repeat("x", MaxNameLength + 1) \o " $1">>),
      Html(Hits(0, <<>>), <<"Welcome", "$5">>) }

-----------------------------------------------------------------------------
(* The orchestrator fetchMenuData and the operations around it *)

NoOutcome == [kind |-> "none", data |-> Null]

NoReply == [op |-> "none"]

NoCall == [op |-> "none"]

Init ==
    /\ menuCache = Null
    /\ cacheTimestamp = NoNumber
    /\ now = 0
    /\ ticks = 0
    /\ runs = 0
    /\ pc = [q \in Queries |-> "idle"]
    /\ apiIdx = [q \in Queries |-> 0]
    /\ browser = [q \in Queries |-> "none"]
    /\ stages = [q \in Queries |-> <<>>]
    /\ outcome = [q \in Queries |-> NoOutcome]
    /\ reply = NoReply
    /\ afterClear = "no"
    /\ order = <<>>
    /\ call = NoCall

\* menuData && menuData.items.length > 0
Accept(menuData) == menuData # Null /\ Len(menuData.items) > 0

SucceedReturnsEntry(q, menuData) ==
    /\ menuCache' = Annotated(menuData, now)
    /\ cacheTimestamp' = now
    /\ pc' = [pc EXCEPT ![q] = "done"]
    /\ outcome' = [outcome EXCEPT ![q] = [kind |-> "fresh", data |-> Annotated(menuData, now)]]

SucceedKeepsPreviousEntry(q, menuData) ==
    /\ menuCache' = IF menuCache = Null THEN Annotated(menuData, now) ELSE menuCache
    /\ cacheTimestamp' = IF menuCache = Null THEN now ELSE cacheTimestamp
    /\ pc' = [pc EXCEPT ![q] = "done"]
    /\ outcome' = [outcome EXCEPT ![q] = [kind |-> "fresh", data |-> menuData]]

SucceedYieldsToLaterRun(q, menuData) ==
    /\ menuCache' = IF order # <<>> /\ order[Len(order)] # q /\ menuCache # Null
                    THEN menuCache ELSE Annotated(menuData, now)
    /\ cacheTimestamp' = IF order # <<>> /\ order[Len(order)] # q /\ menuCache # Null
                         THEN cacheTimestamp ELSE now
    /\ pc' = [pc EXCEPT ![q] = "done"]
    /\ outcome' = [outcome EXCEPT ![q] = [kind |-> "fresh", data |-> menuData]]

\* this.updateCache(menuData); return menuData
Succeed(q, menuData) ==
    /\ menuCache' = Annotated(menuData, now)
    /\ cacheTimestamp' = now
    /\ pc' = [pc EXCEPT ![q] = "done"]
    /\ outcome' = [outcome EXCEPT ![q] = [kind |-> "fresh", data |-> menuData]]

FailRaises(q) ==
    /\ UNCHANGED <<menuCache, cacheTimestamp>>
    /\ pc' = [pc EXCEPT ![q] = "done"]
    /\ outcome' = [outcome EXCEPT ![q] = [kind |-> "error", data |-> Null]]

FailServesCache(q) ==
    /\ UNCHANGED <<menuCache, cacheTimestamp>>
    /\ pc' = [pc EXCEPT ![q] = "done"]
    /\ outcome' = [outcome EXCEPT ![q] = [kind |-> "stale", data |-> menuCache]]

FailDropsExpiredEntry(q) ==
    /\ menuCache' = Null
    /\ cacheTimestamp' = NoNumber
    /\ pc' = [pc EXCEPT ![q] = "done"]
    /\ outcome' = [outcome EXCEPT ![q] =
           IF menuCache # Null THEN [kind |-> "stale", data |-> menuCache]
           ELSE [kind |-> "error", data |-> Null]]

FailRefreshesTimestamp(q) ==
    /\ UNCHANGED menuCache
    /\ cacheTimestamp' = IF menuCache # Null THEN now ELSE cacheTimestamp
    /\ pc' = [pc EXCEPT ![q] = "done"]
    /\ outcome' = [outcome EXCEPT ![q] =
           IF menuCache # Null THEN [kind |-> "stale", data |-> menuCache]
           ELSE [kind |-> "error", data |-> Null]]

\* the catch block of fetchMenuData
Fail(q) ==
    /\ UNCHANGED <<menuCache, cacheTimestamp>>
    /\ pc' = [pc EXCEPT ![q] = "done"]
    /\ outcome' = [outcome EXCEPT ![q] =
           IF menuCache # Null THEN [kind |-> "stale", data |-> menuCache]
           ELSE [kind |-> "error", data |-> Null]]

InvokeAgain(q, stage, at) ==
    /\ UNCHANGED <<menuCache, cacheTimestamp, outcome, pc>>
    /\ stages' = [stages EXCEPT ![q] = Append(@, @[Len(@)])]

\* the orchestrator moves on to the next stage
Invoke(q, stage, at) ==
    /\ UNCHANGED <<menuCache, cacheTimestamp, outcome>>
    /\ pc' = [pc EXCEPT ![q] = at]
    /\ stages' = [stages EXCEPT ![q] = Append(@, stage)]

StartQueryJoinsRunInFlight(q) ==
    /\ pc[q] = "idle"
    /\ runs < MaxRuns
    /\ runs' = runs + 1
    /\ IF isCacheValid
       THEN /\ pc' = [pc EXCEPT ![q] = "done"]
            /\ outcome' = [outcome EXCEPT ![q] = [kind |-> "hit", data |-> menuCache]]
            /\ UNCHANGED <<apiIdx, stages>>
       ELSE IF \E p \in Queries : pc[p] \in {"api", "launch", "scrape", "website"}
       THEN /\ pc' = [pc EXCEPT ![q] = "joined"]
            /\ UNCHANGED <<apiIdx, stages, outcome>>
       ELSE /\ pc' = [pc EXCEPT ![q] = "api"]
            /\ apiIdx' = [apiIdx EXCEPT ![q] = 1]
            /\ stages' = [stages EXCEPT ![q] = <<"api">>]
            /\ UNCHANGED outcome
    /\ UNCHANGED <<menuCache, cacheTimestamp, now, ticks, browser>>

\* A query operation (getFullMenu, searchMenuItems, getMenuCategories or
\* getItemsByCategory, which all begin with `await this.fetchMenuData()`) calls
\* fetchMenuData: a valid cache entry is returned at once, otherwise the
\* acquisition run starts with fetchFromAPI.
StartQuery(q) ==
    /\ pc[q] = "idle"
    /\ runs < MaxRuns
    /\ runs' = runs + 1
    /\ IF isCacheValid
       THEN /\ pc' = [pc EXCEPT ![q] = "done"]
            /\ outcome' = [outcome EXCEPT ![q] = [kind |-> "hit", data |-> menuCache]]
            /\ UNCHANGED <<apiIdx, stages>>
       ELSE /\ pc' = [pc EXCEPT ![q] = "api"]
            /\ apiIdx' = [apiIdx EXCEPT ![q] = 1]
            /\ stages' = [stages EXCEPT ![q] = <<"api">>]
            /\ UNCHANGED outcome
    /\ UNCHANGED <<menuCache, cacheTimestamp, now, ticks, browser>>

ApiRequestRetries(q) ==
    /\ pc[q] = "api"
    /\ \E resp \in ApiResponses :
        LET menuItems == EndpointItems(resp)
            menuData == IF Len(menuItems) > 0 THEN ApiSnapshot(menuItems, now) ELSE Null
        IN IF Accept(menuData)
           THEN Succeed(q, menuData) /\ UNCHANGED <<apiIdx, stages>>
           ELSE IF menuData = Null
           THEN /\ apiIdx' = [apiIdx EXCEPT ![q] = IF @ < NumApiUrls THEN @ + 1 ELSE 1]
                /\ UNCHANGED <<menuCache, cacheTimestamp, pc, outcome, stages>>
           ELSE Invoke(q, "puppeteer", "launch") /\ UNCHANGED apiIdx
    /\ UNCHANGED <<now, ticks, runs, browser>>

\* One endpoint of apiUrls answers, and the loop of fetchFromAPI either
\* returns, continues, or ends with null.
ApiRequest(q) ==
    /\ pc[q] = "api"
    /\ \E resp \in ApiResponses :
        LET menuItems == EndpointItems(resp)
            menuData == IF Len(menuItems) > 0 THEN ApiSnapshot(menuItems, now) ELSE Null
        IN IF Accept(menuData)
           THEN Succeed(q, menuData) /\ UNCHANGED <<apiIdx, stages>>
           ELSE IF menuData = Null /\ apiIdx[q] < NumApiUrls
           THEN /\ apiIdx' = [apiIdx EXCEPT ![q] = @ + 1]
                /\ UNCHANGED <<menuCache, cacheTimestamp, pc, outcome, stages>>
           ELSE Invoke(q, "puppeteer", "launch") /\ UNCHANGED apiIdx
    /\ UNCHANGED <<now, ticks, runs, browser>>

\* puppeteer.launch resolves or rejects; a rejection is caught, nothing is to
\* be closed, and fetchWithPuppeteer returns null
PuppeteerLaunch(q) ==
    /\ pc[q] = "launch"
    /\ \/ /\ browser' = [browser EXCEPT ![q] = "open"]
          /\ pc' = [pc EXCEPT ![q] = "scrape"]
          /\ UNCHANGED <<menuCache, cacheTimestamp, outcome, stages>>
       \/ /\ Invoke(q, "website", "website")
          /\ UNCHANGED browser
    /\ UNCHANGED <<now, ticks, runs, apiIdx>>

PuppeteerScrapeClosesOnReturnOnly(q) ==
    /\ pc[q] = "scrape"
    /\ \E page \in Pages :
        LET menuData == PuppeteerResult(page, now)
        IN \/ /\ browser' = [browser EXCEPT ![q] = IF page.kind = "throw" THEN "open"
                                                    ELSE "closed"]
              /\ IF Accept(menuData)
                 THEN Succeed(q, menuData) /\ UNCHANGED stages
                 ELSE Invoke(q, "website", "website")
           \/ /\ browser' = [browser EXCEPT ![q] = "closeRejected"]
              /\ Fail(q)
              /\ UNCHANGED stages
    /\ UNCHANGED <<now, ticks, runs, apiIdx>>

\* The rest of fetchWithPuppeteer with the browser launched: the try block over
\* the page, then finally browser.close().  When close() rejects, the rejection
\* replaces the return value and reaches the catch block of fetchMenuData.
PuppeteerScrape(q) ==
    /\ pc[q] = "scrape"
    /\ \E page \in Pages :
        LET menuData == PuppeteerResult(page, now)
        IN \/ /\ browser' = [browser EXCEPT ![q] = "closed"]
              /\ IF Accept(menuData)
                 THEN Succeed(q, menuData) /\ UNCHANGED stages
                 ELSE Invoke(q, "website", "website")
           \/ /\ browser' = [browser EXCEPT ![q] = "closeRejected"]
              /\ Fail(q)
              /\ UNCHANGED stages
    /\ UNCHANGED <<now, ticks, runs, apiIdx>>

\* fetchFromWebsite returns a snapshot or throws
FetchWebsite(q) ==
    /\ pc[q] = "website"
    /\ \E doc \in Documents :
        IF WebsiteFails(doc) THEN Fail(q)
        ELSE LET menuData == WebsiteSnapshot(doc, now)
             IN Succeed(q, menuData)
    /\ UNCHANGED <<now, ticks, runs, apiIdx, browser, stages>>

\* the query operation builds its response from what fetchMenuData handed over
\* (or the error reaches the transport) and the request ends
Respond(q) ==
    /\ pc[q] = "done"
    /\ pc' = [pc EXCEPT ![q] = "idle"]
    /\ apiIdx' = [apiIdx EXCEPT ![q] = 0]
    /\ browser' = [browser EXCEPT ![q] = "none"]
    /\ stages' = [stages EXCEPT ![q] = <<>>]
    /\ outcome' = [outcome EXCEPT ![q] = NoOutcome]
    /\ UNCHANGED <<menuCache, cacheTimestamp, now, ticks, runs>>

ClearCacheCancelsRuns ==
    LET inFlight(q) == pc[q] \in {"api", "launch", "scrape", "website"}
    IN /\ menuCache' = Null
       /\ cacheTimestamp' = NoNumber
       /\ pc' = [q \in Queries |-> IF inFlight(q) THEN "done" ELSE pc[q]]
       /\ outcome' = [q \in Queries |-> IF inFlight(q) THEN [kind |-> "error", data |-> Null]
                                        ELSE outcome[q]]
       /\ UNCHANGED <<now, ticks, runs, apiIdx, browser, stages>>

ClearCacheKeepsTimestamp ==
    /\ menuCache' = Null
    /\ UNCHANGED <<cacheTimestamp, now, ticks, runs, pc, apiIdx, browser, stages, outcome>>

ClearCacheKeepsValidEntry ==
    /\ menuCache' = IF isCacheValid THEN menuCache ELSE Null
    /\ cacheTimestamp' = IF isCacheValid THEN cacheTimestamp ELSE NoNumber
    /\ UNCHANGED <<now, ticks, runs, pc, apiIdx, browser, stages, outcome>>

\* clearCache, reached from the clear_menu_cache tool and POST /api/cache/clear
ClearCache ==
    /\ menuCache' = Null
    /\ cacheTimestamp' = NoNumber
    /\ UNCHANGED <<now, ticks, runs, pc, apiIdx, browser, stages, outcome>>

\* Time passes.  The steps are chosen to land just before, on and after the
\* expiry of an entry.
TickSteps == {1, cacheExpiryMinutes * MsPerMinute - 1}

Tick ==
    /\ ticks < MaxTicks
    /\ ticks' = ticks + 1
    /\ \E d \in TickSteps : now' = now + d
    /\ UNCHANGED <<menuCache, cacheTimestamp, runs, pc, apiIdx, browser, stages, outcome>>

Next ==
    \/ \E q \in Queries : StartQuery(q) /\ UNCHANGED aux
    \/ \E q \in Queries : ApiRequest(q) /\ UNCHANGED aux
    \/ \E q \in Queries : PuppeteerLaunch(q) /\ UNCHANGED aux
    \/ \E q \in Queries : PuppeteerScrape(q) /\ UNCHANGED aux
    \/ \E q \in Queries : FetchWebsite(q) /\ UNCHANGED aux
    \/ \E q \in Queries : Respond(q) /\ UNCHANGED aux
    \/ ClearCache /\ UNCHANGED aux
    \/ Tick /\ UNCHANGED aux

Spec == Init /\ [][Next]_vars

\* Every external operation a run awaits (the request to an endpoint, the
\* launch of the browser, the work on the page and close(), the request for
\* the static page) eventually resolves or rejects, so that the run takes its
\* next step.
Settles(q) ==
    (ApiRequest(q) \/ PuppeteerLaunch(q) \/ PuppeteerScrape(q) \/ FetchWebsite(q))
        /\ UNCHANGED aux

\* The queries and clears with the clock standing still: a run reads the clock
\* only in isCacheValid at its start and in the timestamps it writes, and the
\* timeout of an awaited operation is that operation failing.
NextLive ==
    \/ \E q \in Queries : StartQuery(q) /\ UNCHANGED aux
    \/ \E q \in Queries : ApiRequest(q) /\ UNCHANGED aux
    \/ \E q \in Queries : PuppeteerLaunch(q) /\ UNCHANGED aux
    \/ \E q \in Queries : PuppeteerScrape(q) /\ UNCHANGED aux
    \/ \E q \in Queries : FetchWebsite(q) /\ UNCHANGED aux
    \/ \E q \in Queries : Respond(q) /\ UNCHANGED aux
    \/ ClearCache /\ UNCHANGED aux

SpecLive == Init /\ [][NextLive]_vars /\ \A q \in Queries : WF_vars(Settles(q))

\* The same queries and clears with the order in which the calls of
\* fetchMenuData began: a call enters at its start and leaves when its request
\* ends.
Enters(q) == order' = Append(order, q) /\ UNCHANGED <<reply, afterClear, call>>

Leaves(q) ==
    /\ order' = SelectSeq(order, LAMBDA p : p # q)
    /\ UNCHANGED <<reply, afterClear, call>>

NextOverlap ==
    \/ \E q \in Queries : StartQuery(q) /\ Enters(q)
    \/ \E q \in Queries : ApiRequest(q) /\ UNCHANGED aux
    \/ \E q \in Queries : PuppeteerLaunch(q) /\ UNCHANGED aux
    \/ \E q \in Queries : PuppeteerScrape(q) /\ UNCHANGED aux
    \/ \E q \in Queries : FetchWebsite(q) /\ UNCHANGED aux
    \/ \E q \in Queries : Respond(q) /\ Leaves(q)
    \/ ClearCache /\ UNCHANGED aux
    \/ Tick /\ UNCHANGED aux

SpecOverlap == Init /\ [][NextOverlap]_vars

-----------------------------------------------------------------------------
(* Cache management: the clear_menu_cache tool, GET /api/cache/status and     *)
(* POST /api/cache/clear.  Each handler runs to its response without an       *)
(* await, so it is one step; reply holds the response until it is sent.       *)

\* this.menuCache?.items?.length || 0
ItemCount(cache) == IF cache # Null THEN Len(cache.items) ELSE 0

ClearMenuCacheCountsAfterwards ==
    /\ reply = NoReply
    /\ ClearCache
    /\ reply' = [op |-> "clear_menu_cache",
                 hadCache |-> menuCache' # Null,
                 itemsCleared |-> ItemCount(menuCache')]
    /\ afterClear' = "cleared"
    /\ UNCHANGED <<call, order>>

\* the clear_menu_cache tool
ClearMenuCache ==
    /\ reply = NoReply
    /\ reply' = [op |-> "clear_menu_cache",
                 hadCache |-> menuCache # Null,
                 itemsCleared |-> ItemCount(menuCache)]
    /\ ClearCache
    /\ afterClear' = "cleared"
    /\ UNCHANGED <<call, order>>

\* POST /api/cache/clear
PostCacheClear ==
    /\ reply = NoReply
    /\ ClearCache
    /\ reply' = [op |-> "cache_clear", message |-> "Cache cleared successfully"]
    /\ afterClear' = "cleared"
    /\ UNCHANGED <<call, order>>

\* Math.round(cacheAge * 100) / 100 in hundredths of a minute, from the age in
\* milliseconds: cacheAge * 100 is ms / (MsPerMinute / 100)
RoundedAge(ms) ==
    LET unit == MsPerMinute \div 100
    IN (ms + unit \div 2) \div unit

\* the body GET /api/cache/status answers with; null is NoNumber
CacheStatusBody ==
    LET cacheAge == IF cacheTimestamp # NoNumber THEN now - cacheTimestamp ELSE NoNumber
    IN [op |-> "status",
        cached |-> menuCache # Null,
        cacheTimestamp |-> cacheTimestamp,
        cacheAgeMinutes |-> IF cacheAge # NoNumber /\ cacheAge # 0
                            THEN RoundedAge(cacheAge) ELSE NoNumber,
        expiryMinutes |-> cacheExpiryMinutes,
        valid |-> isCacheValid,
        itemCount |-> ItemCount(menuCache)]

CacheStatusEvictsExpiredEntry ==
    /\ reply = NoReply
    /\ reply' = CacheStatusBody
    /\ menuCache' = IF isCacheValid THEN menuCache ELSE Null
    /\ cacheTimestamp' = IF isCacheValid THEN cacheTimestamp ELSE NoNumber
    /\ UNCHANGED <<now, ticks, runs, pc, apiIdx, browser, stages, outcome, afterClear,
                   call, order>>

\* GET /api/cache/status
CacheStatus ==
    /\ reply = NoReply
    /\ reply' = CacheStatusBody
    /\ UNCHANGED <<menuCache, cacheTimestamp, now, ticks, runs, pc, apiIdx, browser,
                   stages, outcome, afterClear, call, order>>

\* res.json(...) / the tool result leaves the server
ReplySent ==
    /\ reply # NoReply
    /\ reply' = NoReply
    /\ UNCHANGED <<menuCache, cacheTimestamp, now, ticks, runs, pc, apiIdx, browser,
                   stages, outcome, afterClear, call, order>>

\* a query that starts ends the period a clear opened
Started == afterClear' = "no" /\ UNCHANGED <<reply, call, order>>

\* updateCache in a step of a run fills the cache a clear had emptied
Observed ==
    /\ afterClear' = IF afterClear = "cleared" /\ menuCache' # Null THEN "rewritten"
                     ELSE afterClear
    /\ UNCHANGED <<reply, call, order>>

\* The cache management requests next to the queries of one client.
Clients == {"q1"}

NextAdmin ==
    \/ \E q \in Clients : StartQuery(q) /\ Started
    \/ \E q \in Clients : ApiRequest(q) /\ Observed
    \/ \E q \in Clients : PuppeteerLaunch(q) /\ Observed
    \/ \E q \in Clients : PuppeteerScrape(q) /\ Observed
    \/ \E q \in Clients : FetchWebsite(q) /\ Observed
    \/ \E q \in Clients : Respond(q) /\ Observed
    \/ ClearMenuCache
    \/ PostCacheClear
    \/ CacheStatus
    \/ ReplySent
    \/ Tick /\ Observed

SpecAdmin == Init /\ [][NextAdmin]_vars

-----------------------------------------------------------------------------
(* Responses of the query operations *)

\* the object getFullMenu serialises from what fetchMenuData returned
getFullMenu(menuData) ==
    [restaurant |-> "For Five Coffee",
     totalItems |-> Len(menuData.items),
     categories |-> menuData.categories,
     items |-> menuData.items,
     lastUpdated |-> menuData.lastUpdated,
     cached |-> menuData.cached,
     source |-> OrElse(menuData.source, "puppeteer")]

LowerCaseLetters == "abcdefghijklmnopqrstuvwxyz"

UpperCaseLetters == "ABCDEFGHIJKLMNOPQRSTUVWXYZ"

\* String.prototype.toLowerCase on the letters A-Z
RECURSIVE ToLowerCase(_)
ToLowerCase(s) ==
    IF s = "" THEN s
    ELSE LET c == Char(s, 1)
             at == {i \in 1..Len(UpperCaseLetters) : Char(UpperCaseLetters, i) = c}
         IN (IF at = {} THEN c ELSE Char(LowerCaseLetters, CHOOSE i \in at : TRUE))
                \o ToLowerCase(SubSeq(s, 2, Len(s)))

\* item => item.category.toLowerCase() === category.toLowerCase()
EqualsCategory(item, category) == ToLowerCase(item.category) = ToLowerCase(category)

\* the object getItemsByCategory serialises from what fetchMenuData returned
getItemsByCategory(menuData, category) ==
    LET categoryItems == SelectSeq(menuData.items, LAMBDA item : EqualsCategory(item, category))
    IN [category |-> category,
        itemCount |-> Len(categoryItems),
        items |-> categoryItems]

-----------------------------------------------------------------------------
(* The transports: the stdio CallTool handler and POST /mcp.  What the tool   *)
(* operation itself does (its result, or the error it throws) is an input.    *)

ToolNames ==
    {"get_full_menu", "search_menu_items", "get_menu_categories", "get_items_by_category",
     "clear_menu_cache"}

Returned(content) == [kind |-> "return", content |-> content, message |-> ""]

Thrown(message) == [kind |-> "throw", content |-> "", message |-> message]

DispatchToolSkipsUnknown(name, args, does) ==
    IF name \in {"search_menu_items", "get_items_by_category"} /\ args = Undefined
    THEN Thrown("Cannot read properties of undefined")
    ELSE IF name = "clear_menu_cache" THEN Returned("Menu cache cleared successfully")
    ELSE IF name \in ToolNames THEN does
    ELSE Returned("")

\* switch (name) { case ...: await this.<operation>(...) ... default: throw }
\* args.query and args.category throw when the request carries no arguments
DispatchTool(name, args, does) ==
    IF name \in {"search_menu_items", "get_items_by_category"} /\ args = Undefined
    THEN Thrown("Cannot read properties of undefined")
    ELSE IF name = "clear_menu_cache" THEN Returned("Menu cache cleared successfully")
    ELSE IF name \in ToolNames THEN does
    ELSE Thrown("Unknown tool: " \o name)

\* what a transport handler did with a request: the responses it sent, in
\* order, and whether an exception left the handler
Handled(responses) == [responses |-> responses, uncaught |-> FALSE]

\* the CallToolRequestSchema handler of the stdio server
CallToolHandler(request) ==
    LET r == DispatchTool(request.name, request.arguments, request.does)
    IN IF r.kind = "return"
       THEN Handled(<<[text |-> r.content]>>)
       ELSE Handled(<<[text |-> "Error: " \o r.message]>>)

JsonRpcResult(status, id) ==
    [status |-> status, id |-> id, error |-> FALSE, code |-> 0, message |-> ""]

JsonRpcError(status, code, message, id) ==
    [status |-> status, id |-> id, error |-> TRUE, code |-> code, message |-> message]

McpMethods ==
    {"initialize", "tools/list", "resources/list", "prompts/list", "ping",
     "notifications/initialized", "logging/setLevel"}

\* app.post('/mcp', ...): body.params is Null when the request has none
PostMcp(body) ==
    IF body.method = "tools/call"
    THEN IF body.params = Null
         THEN Handled(<<JsonRpcError(500, 0 - 32603, "Cannot destructure property", body.id)>>)
         ELSE LET r == DispatchTool(body.params.name, body.params.arguments, body.params.does)
              IN IF r.kind = "return"
                 THEN Handled(<<JsonRpcResult(200, body.id)>>)
                 ELSE Handled(<<JsonRpcError(500, 0 - 32603, r.message, body.id)>>)
    ELSE IF body.method \in McpMethods
    THEN Handled(<<JsonRpcResult(200, body.id)>>)
    ELSE Handled(<<JsonRpcError(400, 0 - 32601, "Method not found", body.id)>>)

(* Requests the transports receive *)

ToolRequests ==
    {[name |-> n, arguments |-> a, does |-> d] :
        n \in ToolNames \cup {"invalid_tool"},
        a \in {Undefined, "{}"},
        d \in {Returned("menu"), Thrown("Failed to fetch menu data: Network error")}}

McpBodies ==
    {[method |-> "tools/call", params |-> r, id |-> 4] : r \in ToolRequests \cup {Null}}
        \cup {[method |-> m, params |-> Null, id |-> 3] :
                 m \in {"initialize", "ping", "invalid/method"}}

-----------------------------------------------------------------------------
(* Operations applied to given arguments: a call starts with its arguments    *)
(* and no result, and the one step computes the result.                       *)

MaxMenuItems == 2    \* items of a menu handed to a query operation

Pending == [pending |-> TRUE]

Call(op, args) == [op |-> op, args |-> args, result |-> Pending]

\* items a menu can hold: two names in categories, two of which differ in
\* letter case only
CallItems ==
    {MenuItem(n, "", "$4.50", c) : n \in {"Latte", "Mocha"}, c \in {"COFFEE", "Coffee", "TEA"}}

\* the menus fetchFromAPI builds from these items
CallMenus ==
    {ApiSnapshot(items, 0) :
        items \in UNION {[1..n -> CallItems] : n \in 1..MaxMenuItems}}

\* fetchFromWebsite for the document the site serves: the snapshot it returns,
\* or the error it throws
fetchFromWebsite(doc, t) ==
    IF doc.kind = "error" THEN Thrown("Network error")
    ELSE IF WebsiteFails(doc) THEN Thrown("Unable to extract valid menu items from website")
    ELSE WebsiteSnapshot(doc, t)

\* documents in which several selectors match, or none, next to body text
\* with priced lines
CallDocuments ==
    Documents \cup
    { Html([Hits(2, <<Element("", "$1.00", "", "")>>) EXCEPT
                ![5] = <<Element("Mocha", "$4.00", "", "")>>], <<"Chai $3.00">>),
      Html([Hits(1, <<Element("Latte", "$4.50", "", "")>>) EXCEPT
                ![4] = <<Element("Mocha", "$4.00", "", "")>>], <<"Chai $3.00">>),
      Html(Hits(0, <<>>), <<"COFFEE", "Latte $4.50">>),
      Html(Hits(7, <<Element("Latte", "$4.50", "", ""),
                     Element("tenant config", "", "", "")>>), <<"Chai $3.00">>) }

MaxLines == 3    \* lines of a text handed to parseMenuFromText

\* lines of a body text: headers, priced lines (with one and with several
\* '$', with short names), and lines that are neither
TextLines ==
    {"COFFEE", "TEA & MORE", "Espresso $3.50", "  Green Tea $2.50", "Welcome", "",
     "Tea $3 or $4", "Tip $ $5", "A $1"}

Texts == UNION {[1..n -> TextLines] : n \in 1..MaxLines}

\* prices an item of a response can carry, in minor units; NoNumber is an item
\* without a price
PriceValues == {NoNumber, 0, 5, 99, 100, 450, 1050, 12345}

\* responses of the three shapes with one item of each price
PricedBodies ==
    UNION {{Body(Array(<<RawCategory("COFFEE", Array(<<RawItem("Latte", "", p, Undefined)>>))>>),
                 Null, Null),
            Body(Null, Array(<<RawItem("Latte", "", p, "COFFEE")>>), Null),
            Body(Null, Null,
                 Array(<<RawCategory("COFFEE", Array(<<RawItem("Latte", "", p, Undefined)>>))>>))} :
              p \in PriceValues}

\* the passes whose wait for the prices ran into its timeout of 3000 ms
TimedOutPasses ==
    {[pass EXCEPT !.ready = "timeout"] : pass \in {p \in Passes : p.click = "true"}}

CallTabLists == TabLists \cup {<<"COFFEE", "TEA", "JUICE">>}

\* a page whose category names and item names hold the '-' the key of the
\* duplicate removal is joined with
HyphenPasses ==
    { Found(<<Candidate("Matcha-Iced", "$5.00")>>),
      Found(<<Candidate("Matcha", "$4.00")>>),
      Found(<<Candidate("Matcha", "$4.00"), Candidate("Matcha", "$4.25")>>) }

HyphenPages ==
    {[kind |-> "ok", marker |-> "found", tabs |-> <<"Tea", "Iced-Tea">>, passes |-> ps] :
        ps \in [1..2 -> HyphenPasses]}

\* the pages of Pages, and those where the marker wait or the wait of a
\* category timed out, over up to three categories
CallPages ==
    Pages
        \cup HyphenPages
        \cup UNION {{[kind |-> "ok", marker |-> m, tabs |-> tabs, passes |-> ps] :
                        m \in {"found", "timeout"},
                        ps \in [1..Len(tabs) -> Passes \cup TimedOutPasses]} :
                     tabs \in CallTabLists}

Calls ==
    {Call("fetchWithPuppeteer", [page |-> page]) : page \in CallPages}
        \cup UNION {{Call("getItemsByCategory", [menuData |-> m, category |-> c]) :
                        c \in Range(getFullMenu(m).categories)} : m \in CallMenus}
        \cup {Call("fetchFromAPI", [responses |-> rs]) :
                 rs \in [1..NumApiUrls -> ApiResponses]}
        \cup {Call("parseAPIResponse", [data |-> d]) : d \in PricedBodies}
        \cup {Call("fetchFromWebsite", [doc |-> d]) : d \in CallDocuments}
        \cup {Call("parseMenuFromText", [text |-> t]) : t \in Texts}
        \cup {Call("CallToolHandler", [request |-> r]) : r \in ToolRequests}
        \cup {Call("PostMcp", [body |-> b]) : b \in McpBodies}

InitCalls ==
    /\ menuCache = Null
    /\ cacheTimestamp = NoNumber
    /\ now = 0
    /\ ticks = 0
    /\ runs = 0
    /\ pc = [q \in Queries |-> "idle"]
    /\ apiIdx = [q \in Queries |-> 0]
    /\ browser = [q \in Queries |-> "none"]
    /\ stages = [q \in Queries |-> <<>>]
    /\ outcome = [q \in Queries |-> NoOutcome]
    /\ reply = NoReply
    /\ afterClear = "no"
    /\ order = <<>>
    /\ call \in Calls

Returns(op, result) ==
    /\ call.op = op
    /\ call.result = Pending
    /\ call' = [call EXCEPT !.result = result]
    /\ UNCHANGED <<menuCache, cacheTimestamp, now, ticks, runs, pc, apiIdx, browser,
                   stages, outcome, reply, afterClear, order>>

ApplyFetchWithPuppeteer ==
    Returns("fetchWithPuppeteer", PuppeteerResult(call.args.page, now))

ApplyGetItemsByCategory ==
    Returns("getItemsByCategory", getItemsByCategory(call.args.menuData, call.args.category))

ApplyFetchFromAPI ==
    Returns("fetchFromAPI", fetchFromAPI(call.args.responses, now))

ApplyParseAPIResponse ==
    Returns("parseAPIResponse", Array(parseAPIResponse(call.args.data)))

ApplyFetchFromWebsite ==
    Returns("fetchFromWebsite", fetchFromWebsite(call.args.doc, now))

ApplyParseMenuFromText ==
    Returns("parseMenuFromText", Array(parseMenuFromText(call.args.text)))

ApplyCallToolHandler ==
    Returns("CallToolHandler", CallToolHandler(call.args.request))

ApplyPostMcp ==
    Returns("PostMcp", PostMcp(call.args.body))

NextCalls ==
    \/ ApplyFetchWithPuppeteer
    \/ ApplyGetItemsByCategory
    \/ ApplyFetchFromAPI
    \/ ApplyParseAPIResponse
    \/ ApplyFetchFromWebsite
    \/ ApplyParseMenuFromText
    \/ ApplyCallToolHandler
    \/ ApplyPostMcp

SpecCalls == InitCalls /\ [][NextCalls]_vars

-----------------------------------------------------------------------------
(* Properties *)

StageOrder == <<"api", "puppeteer", "website">>

Running == {"api", "launch", "scrape", "website"}

\* q's acquisition run ends in this step without a result
RunFails(q) == pc[q] \in Running /\ pc'[q] = "done" /\ outcome'[q].kind # "fresh"

ExpiryMs == cacheExpiryMinutes * MsPerMinute

\* C1: an acquisition run ends in failure (stale fallback or raised error) only
\* after all three stages have been invoked, in particular the static-page
\* stage is invoked whenever the rendered-page stage fails or throws.
C1_FailureOnlyAfterAllStages ==
    \A q \in Queries :
        (pc[q] = "done" /\ outcome[q].kind \in {"stale", "error"})
            => stages[q] = StageOrder

\* C2: every snapshot returned as freshly acquired, and every cache entry, has
\* at least one item.
C2_NoEmptySnapshot ==
    /\ \A q \in Queries : outcome[q].kind = "fresh" => Len(outcome[q].data.items) >= 1
    /\ menuCache # Null => Len(menuCache.items) >= 1

\* a run that reached the static-page stage returned its non-empty result and
\* cached it
C2_Witness ==
    \E q \in Queries :
        /\ outcome[q].kind = "fresh"
        /\ stages[q] = StageOrder
        /\ menuCache # Null
        /\ menuCache.items = outcome[q].data.items

\* C3: when an acquisition run fails while a cache entry is present, the call
\* returns that entry, whatever its age, and raises nothing.
C3_StaleFallback ==
    [][\A q \in Queries :
          (RunFails(q) /\ menuCache # Null)
              => /\ outcome'[q].kind = "stale"
                 /\ outcome'[q].data = menuCache]_vars

\* a failed run was answered with an entry that had expired
C3_Witness ==
    \E q \in Queries :
        /\ outcome[q].kind = "stale"
        /\ outcome[q].data = menuCache
        /\ now - cacheTimestamp >= ExpiryMs

\* C4: when an acquisition run fails while no cache entry exists, the call
\* raises an error, returns no snapshot, and the cache is still empty.
C4_RaisesWithoutEntry ==
    [][\A q \in Queries :
          (RunFails(q) /\ menuCache = Null)
              => /\ outcome'[q] = [kind |-> "error", data |-> Null]
                 /\ menuCache' = Null
                 /\ cacheTimestamp' = NoNumber]_vars

\* a run through all three stages ended in the raised error, the cache empty
C4_Witness ==
    \E q \in Queries :
        /\ pc[q] = "done"
        /\ outcome[q].kind = "error"
        /\ stages[q] = StageOrder
        /\ menuCache = Null

\* C5: a query that starts while the entry is present and younger than the TTL
\* is served the entry at once: no stage is invoked and menuCache and
\* cacheTimestamp stay as they are.
C5_ValidCacheServes ==
    [][\A q \in Queries :
          (/\ pc[q] = "idle"
           /\ pc'[q] # "idle"
           /\ menuCache # Null
           /\ now - cacheTimestamp < ExpiryMs)
              => /\ pc'[q] = "done"
                 /\ outcome'[q] = [kind |-> "hit", data |-> menuCache]
                 /\ stages'[q] = <<>>
                 /\ menuCache' = menuCache
                 /\ cacheTimestamp' = cacheTimestamp]_vars

\* a query was served an entry one millisecond short of its expiry
C5_Witness ==
    \E q \in Queries :
        /\ outcome[q].kind = "hit"
        /\ outcome[q].data = menuCache
        /\ now - cacheTimestamp = ExpiryMs - 1

\* C6: isCacheValid is true exactly when an entry is present and its age in
\* milliseconds is strictly less than the TTL.
C6_ValidIffYoungerThanTtl ==
    isCacheValid <=> (menuCache # Null /\ now - cacheTimestamp < ExpiryMs)

\* an entry aged exactly the TTL is present and invalid
C6_Witness ==
    /\ menuCache # Null
    /\ now - cacheTimestamp = ExpiryMs
    /\ ~isCacheValid

\* C7: no snapshot returned as freshly acquired holds an item whose name has a
\* script-leakage marker or more than 500 characters, whichever stage made it.
C7_NoLeakedScriptReturned ==
    \A q \in Queries :
        outcome[q].kind = "fresh" =>
            \A i \in 1..Len(outcome[q].data.items) :
                LET name == outcome[q].data.items[i].name
                IN /\ ~Includes(name, "window.")
                   /\ ~Includes(name, "LOCATIONS")
                   /\ ~Includes(name, "tenant")
                   /\ ~Includes(name, "coordinates")
                   /\ Len(name) <= MaxNameLength

\* C8: in every snapshot returned as freshly acquired, categories is exactly
\* the set of the categories of its items.
C8_CategoriesExact ==
    \A q \in Queries :
        outcome[q].kind = "fresh" =>
            Range(outcome[q].data.categories) = Range(Categories(outcome[q].data.items))

\* the stage that made a snapshot, read from what the stage puts in it
Producer(menuData) ==
    IF menuData.source = "static_html" THEN "website"
    ELSE IF menuData.source = "puppeteer" THEN "puppeteer"
    ELSE "api"

IsPrefix(a, b) == Len(a) <= Len(b) /\ a = SubSeq(b, 1, Len(a))

\* C9: the stages a run invokes are an initial part of the fixed order, each
\* at most once, and a run that returned a stage's result invoked no stage
\* after the one that made it.
C9_StagesOnceInOrder ==
    \A q \in Queries :
        /\ IsPrefix(stages[q], StageOrder)
        /\ outcome[q].kind = "fresh"
              => stages[q][Len(stages[q])] = Producer(outcome[q].data)

\* the rendered-page stage produced the result and the static-page stage was
\* not invoked
C9_Witness ==
    \E q \in Queries :
        /\ outcome[q].kind = "fresh"
        /\ stages[q] = <<"api", "puppeteer">>
        /\ outcome[q].data.source = "puppeteer"

StageTag(stage) ==
    IF stage = "api" THEN "api"
    ELSE IF stage = "puppeteer" THEN "puppeteer"
    ELSE "static_html"

\* C10: getFullMenu reports as source the stage that produced the snapshot.
C10_SourceNamesProducer ==
    \A q \in Queries :
        outcome[q].kind = "fresh" =>
            getFullMenu(outcome[q].data).source = StageTag(stages[q][Len(stages[q])])

\* C11: clearMenuCache reports hadCache = true and itemsCleared = the number of
\* items held just before the call when the cache is populated, hadCache =
\* false and itemsCleared = 0 when it is empty; in both cases menuCache and
\* cacheTimestamp are null afterwards, and the operation never fails.
C11_ClearReportsPriorEntry ==
    /\ [](reply = NoReply => ENABLED ClearMenuCache)
    /\ [][(reply = NoReply /\ reply'.op = "clear_menu_cache")
              => /\ reply'.hadCache = (menuCache # Null)
                 /\ menuCache # Null => reply'.itemsCleared = Len(menuCache.items)
                 /\ menuCache = Null => reply'.itemsCleared = 0
                 /\ menuCache' = Null
                 /\ cacheTimestamp' = NoNumber]_vars

\* a populated cache was cleared and the report counts its items
C11_Witness ==
    /\ reply.op = "clear_menu_cache"
    /\ reply.hadCache
    /\ reply.itemsCleared >= 2
    /\ menuCache = Null
    /\ cacheTimestamp = NoNumber
    /\ \E q \in Queries : outcome[q].kind = "fresh"
                            /\ Len(outcome[q].data.items) = reply.itemsCleared

\* q calls fetchMenuData in this step
Starts(q) == pc[q] = "idle" /\ pc'[q] # "idle"

\* q's call of fetchMenuData found the cache invalid and began an acquisition run
BeginsRun(q) ==
    /\ pc'[q] = "api"
    /\ stages'[q] = <<"api">>
    /\ outcome'[q] = NoOutcome

C13_BrowserClosedOnExit ==
    \A q \in Queries :
        /\ browser[q] = "open" => pc[q] = "scrape"
        /\ pc[q] = "scrape" => browser[q] = "open"
        /\ browser[q] = "closeRejected" =>
               pc[q] = "done" /\ outcome[q].kind \in {"stale", "error"}

\* the stage ended without items, its session closed, and the run went on
C13_Witness ==
    \E q \in Queries :
        /\ pc[q] = "website"
        /\ browser[q] = "closed"
        /\ stages[q] = StageOrder

SameNameAndCategory(a, b) == a.name = b.name /\ a.category = b.category

\* C14: the item list returned by the rendered-page stage never contains two
\* items with the same name and the same category, whatever the category
\* passes discovered, and the item kept for a name and category is the first
\* one discovered.
C14_NoDuplicateFirstKept ==
    (call.op = "fetchWithPuppeteer" /\ call.result \notin {Pending, Null}) =>
        LET items == call.result.items
            allItems == AllItems(call.args.page)
        IN /\ \A i, j \in 1..Len(items) :
                  SameNameAndCategory(items[i], items[j]) => i = j
           /\ \A i \in 1..Len(items) :
                  \E k \in 1..Len(allItems) :
                      /\ allItems[k] = items[i]
                      /\ \A l \in 1..(k - 1) : ~SameNameAndCategory(allItems[l], items[i])

\* two passes over the same category found the same item twice each, with
\* two prices, and one item is returned
C14_Witness ==
    /\ call.op = "fetchWithPuppeteer"
    /\ call.result \notin {Pending, Null}
    /\ Len(AllItems(call.args.page)) = 4
    /\ Len(call.result.items) = 1
    /\ call.result.items[1].price = "$4.50"

\* C15: when fetchMenuData serves an expired entry because the acquisition run
\* failed, the result handed to the caller is flagged as stale: it differs from
\* what a valid cache hit on the same entry hands over (the entry itself), and
\* so does the response getFullMenu builds from it.
C15_StaleResultFlagged ==
    [][\A q \in Queries :
          (RunFails(q) /\ menuCache # Null /\ ~isCacheValid)
              => /\ outcome'[q].data # menuCache
                 /\ getFullMenu(outcome'[q].data) # getFullMenu(menuCache)]_vars

\* q's acquisition run ends in this step with a stage's result
RunSucceeds(q) == pc[q] \in Running /\ pc'[q] = "done" /\ outcome'[q].kind = "fresh"

\* C16: after a successful acquisition run the cache holds the acquired
\* snapshot annotated cached: true, whatever it held before, cacheTimestamp is
\* the time of the update, and isCacheValid is true immediately afterwards.
C16_SuccessFillsCache ==
    [][\A q \in Queries :
          RunSucceeds(q)
              => /\ menuCache' = [outcome'[q].data EXCEPT !.cached = TRUE,
                                                          !.cacheTimestamp = now]
                 /\ cacheTimestamp' = now
                 /\ isCacheValid']_vars

\* two runs succeeded with different snapshots and the cache holds the one
\* written last, in place of the other
C16_Witness ==
    \E q, p \in Queries :
        /\ outcome[q].kind = "fresh"
        /\ outcome[p].kind = "fresh"
        /\ outcome[p].data.items # outcome[q].data.items
        /\ menuCache # Null
        /\ menuCache.items = outcome[q].data.items
        /\ menuCache.cached
        /\ cacheTimestamp = now
        /\ isCacheValid

\* C17: an acquisition run that fails, by stale fallback or by a raised error,
\* leaves menuCache and cacheTimestamp unchanged; the entry is created or
\* overwritten only by a run that succeeds, and removed only by a clear, a step
\* in which no query moves.
C17_CacheWrittenOnlyBySuccessAndClear ==
    [][/\ \A q \in Queries : RunFails(q) => UNCHANGED <<menuCache, cacheTimestamp>>
       /\ (menuCache' # menuCache \/ cacheTimestamp' # cacheTimestamp)
              => \/ /\ menuCache' # Null
                    /\ \E q \in Queries : RunSucceeds(q)
                 \/ /\ menuCache' = Null
                    /\ cacheTimestamp' = NoNumber
                    /\ UNCHANGED <<pc, outcome, stages>>]_vars

\* a run failed after all its stages, was answered with the entry, and the
\* entry and its timestamp are still the ones updateCache wrote together
C17_Witness ==
    \E q \in Queries :
        /\ pc[q] = "done"
        /\ outcome[q].kind = "stale"
        /\ stages[q] = StageOrder
        /\ menuCache = outcome[q].data
        /\ cacheTimestamp = menuCache.cacheTimestamp

\* C18: GET /api/cache/status is read-only: it changes neither menuCache nor
\* cacheTimestamp, starts no acquisition and never fails; it reports valid =
\* true only with cached = true, and itemCount = 0 when no entry is present.
C18_StatusReadOnly ==
    /\ [](reply = NoReply => ENABLED CacheStatus)
    /\ [][(reply = NoReply /\ reply'.op = "status")
              => /\ UNCHANGED <<menuCache, cacheTimestamp, runs, pc, apiIdx, browser,
                                stages, outcome>>
                 /\ reply'.cached = (menuCache # Null)
                 /\ reply'.valid => reply'.cached
                 /\ ~reply'.cached => reply'.itemCount = 0]_vars

\* the status of an expired entry was reported: the entry is still there and
\* no query is under way
C18_Witness ==
    /\ reply.op = "status"
    /\ reply.cached
    /\ ~reply.valid
    /\ reply.itemCount >= 1
    /\ menuCache # Null
    /\ cacheTimestamp = reply.cacheTimestamp
    /\ \A q \in Queries : pc[q] = "idle"

\* C19: there is no single-flight coalescing: a query that starts while the
\* cache is invalid begins its own acquisition run at the first stage, whatever
\* runs are in flight; two such runs can both complete and write the cache.
C19_NoSingleFlight ==
    [][\A q \in Queries : (Starts(q) /\ ~isCacheValid) => BeginsRun(q)]_vars

\* two runs, each with its own stages, both completed; each wrote the cache
\* and the cache holds the snapshot of the one that wrote last
C19_Witness ==
    \E q, p \in Queries :
        /\ pc[q] = "done" /\ outcome[q].kind = "fresh" /\ stages[q] = <<"api">>
        /\ pc[p] = "done" /\ outcome[p].kind = "fresh" /\ stages[p] = StageOrder
        /\ outcome[q].data.lastUpdated = outcome[p].data.lastUpdated
        /\ menuCache = Annotated(outcome[p].data, cacheTimestamp)

\* C20: for every category c listed in the categories of the full menu, every
\* item returned by getItemsByCategory(c) has a category exactly equal to c,
\* and itemCount is the number of items returned.
C20_CategoryItemsExact ==
    (call.op = "getItemsByCategory" /\ call.result # Pending) =>
        /\ \A i \in 1..Len(call.result.items) :
               call.result.items[i].category = call.args.category
        /\ call.result.itemCount = Len(call.result.items)

\* C21: getFullMenu reports cached: true when the menu it returns was served
\* from the cache (valid hit or stale fallback) and cached: false when the menu
\* was acquired during that same call.
C21_CachedFlagTellsOrigin ==
    \A q \in Queries :
        /\ outcome[q].kind \in {"hit", "stale"} => getFullMenu(outcome[q].data).cached
        /\ outcome[q].kind = "fresh" => ~getFullMenu(outcome[q].data).cached

\* one call acquired the menu and the next one was served the entry it left
C21_Witness ==
    \E q, p \in Queries :
        /\ outcome[q].kind = "fresh"
        /\ ~getFullMenu(outcome[q].data).cached
        /\ outcome[p].kind = "hit"
        /\ getFullMenu(outcome[p].data).cached
        /\ getFullMenu(outcome[p].data).items = getFullMenu(outcome[q].data).items

\* the tool call of the request fails: the operation throws, the arguments it
\* reads are missing, or the tool is unknown
ToolCallFails(r) == DispatchTool(r.name, r.arguments, r.does).kind = "throw"

\* C22: a failing tool call never leaves a transport as an uncaught exception
\* and every request gets exactly one response: the stdio handler answers a
\* failing call (unknown tool included) with the text 'Error: <message>';
\* POST /mcp answers 500 with error code -32603 when the tool call throws or
\* the tool is unknown, and 400 with error code -32601 for an unknown method.
C22_TransportsAnswerFailures ==
    /\ (call.op = "CallToolHandler" /\ call.result # Pending) =>
           LET r == call.args.request
           IN /\ ~call.result.uncaught
              /\ Len(call.result.responses) = 1
              /\ ToolCallFails(r) => StartsWith(call.result.responses[1].text, "Error: ")
              /\ r.name \notin ToolNames =>
                     call.result.responses[1].text = "Error: Unknown tool: " \o r.name
    /\ (call.op = "PostMcp" /\ call.result # Pending) =>
           LET b == call.args.body
               res == call.result.responses[1]
           IN /\ ~call.result.uncaught
              /\ Len(call.result.responses) = 1
              /\ (b.method = "tools/call" /\ b.params # Null /\ ToolCallFails(b.params))
                     => (res.status = 500 /\ res.error /\ res.code = 0 - 32603)
              /\ b.method \notin McpMethods \cup {"tools/call"}
                     => (res.status = 400 /\ res.error /\ res.code = 0 - 32601)

\* POST /mcp answered a call of an unknown tool
C22_Witness ==
    /\ call.op = "PostMcp"
    /\ call.result # Pending
    /\ call.args.body.method = "tools/call"
    /\ call.args.body.params # Null
    /\ call.args.body.params.name = "invalid_tool"
    /\ call.result.responses[1].status = 500
    /\ call.result.responses[1].message = "Unknown tool: invalid_tool"

\* C23: fetchFromAPI asks the endpoints in list order, each once; an endpoint
\* whose request fails, whose body is no object, whose parsing throws or that
\* yields no item is followed by the next one; it returns the snapshot of the
\* first endpoint that yields an item without asking a later one, and returns
\* null when none does.
C23_EndpointsInOrderFirstWins ==
    (call.op = "fetchFromAPI" /\ call.result # Pending) =>
        LET responses == call.args.responses
            yielding == {i \in 1..NumApiUrls : Len(EndpointItems(responses[i])) > 0}
            last == IF yielding = {} THEN NumApiUrls
                    ELSE CHOOSE i \in yielding : \A j \in yielding : i <= j
        IN /\ call.result.requests = [i \in 1..last |-> i]
           /\ yielding = {} => call.result.value = Null
           /\ yielding # {} =>
                  /\ call.result.value # Null
                  /\ call.result.value.items = EndpointItems(responses[last])

\* the first endpoint failed, the second answered an object without items,
\* the third yielded items, and the fourth, which had items too, was not asked
C23_Witness ==
    /\ call.op = "fetchFromAPI"
    /\ call.result # Pending
    /\ call.args.responses[1].kind = "error"
    /\ call.args.responses[2].kind = "object"
    /\ EndpointItems(call.args.responses[2]) = <<>>
    /\ Len(EndpointItems(call.args.responses[4])) > 0
    /\ EndpointItems(call.args.responses[4]) # EndpointItems(call.args.responses[3])
    /\ call.result.requests = <<1, 2, 3>>
    /\ call.result.value # Null
    /\ call.result.value.items = EndpointItems(call.args.responses[3])

\* the raw items of a response, whichever of the three shapes it has
RawItems(data) ==
    IF data.menu # Null THEN data.menu.array[1].items.array
    ELSE IF data.items # Null THEN data.items.array
    ELSE data.categories.array[1].items.array

\* C24: for every item whose price is a non-negative integer number p of minor
\* units, parseAPIResponse produces '$' followed by p / 100 with exactly two
\* decimals; 'Price not available' is produced only for an item that carries
\* no price.
C24_PriceFormatted ==
    (call.op = "parseAPIResponse" /\ call.result # Pending) =>
        LET raw == RawItems(call.args.data)
            items == call.result.array
        IN /\ Len(items) = Len(raw)
           /\ \A i \in 1..Len(raw) :
                  /\ raw[i].price >= 0 =>
                         items[i].price = "$" \o NatToString(raw[i].price \div 100) \o "."
                                              \o NatToString((raw[i].price % 100) \div 10)
                                              \o NatToString(raw[i].price % 10)
                  /\ items[i].price = "Price not available" => raw[i].price = NoNumber

\* fetchFromWebsite was applied to a fetched document and has ended
WebsiteCallEnded ==
    call.op = "fetchFromWebsite" /\ call.result # Pending /\ call.args.doc.kind = "html"

\* C25: fetchFromWebsite uses only the first selector of the priority list
\* that matches an element: what it returns are the items of that selector's
\* elements, elements of later selectors contribute nothing, and the text
\* heuristic supplies the items if and only if no selector matches (so a first
\* match without a named element fails the stage whatever the text holds).
C25_FirstSelectorOnly ==
    WebsiteCallEnded =>
        LET doc == call.args.doc
            matching == {i \in 1..NumSelectors : Len(doc.hits[i]) > 0}
            first == CHOOSE i \in matching : \A j \in matching : i <= j
            returns == "items" \in DOMAIN call.result
        IN /\ (returns /\ matching # {}) => call.result.items = ElementItems(doc.hits[first])
           /\ (returns /\ matching = {}) => call.result.items = parseMenuFromText(doc.bodyText)
           /\ (matching # {} /\ ElementItems(doc.hits[first]) = <<>>) => ~returns

\* two selectors matched named elements and the body text had a priced line:
\* the items are those of the earlier selector
C25_Witness ==
    /\ WebsiteCallEnded
    /\ Cardinality(Matching(call.args.doc)) = 2
    /\ \A i \in Matching(call.args.doc) : ElementItems(call.args.doc.hits[i]) # <<>>
    /\ parseMenuFromText(call.args.doc.bodyText) # <<>>
    /\ "items" \in DOMAIN call.result
    /\ Len(call.result.items) = 1
    /\ call.result.items[1].name = "Latte"

\* the lines parseMenuFromText loops over: trimmed, the empty ones left out
Lines(text) == SelectSeq([i \in 1..Len(text) |-> Trim(text[i])], LAMBDA l : Len(l) > 0)

\* line i is an item line: no header, priced, with a name of 3 characters or more
IsItemLine(lines, i) ==
    /\ ~IsCategoryHeader(lines[i])
    /\ HasPrice(lines[i])
    /\ Len(Trim(SplitPart0(lines[i]))) >= 3

\* the most recent header line before line i, or 'General'
HeaderBefore(lines, i) ==
    LET headers == {j \in 1..(i - 1) : IsCategoryHeader(lines[j])}
    IN IF headers = {} THEN "General"
       ELSE lines[CHOOSE j \in headers : \A k \in headers : k <= j]

ParsedText == call.op = "parseMenuFromText" /\ call.result # Pending

\* C26: parseMenuFromText emits, in line order, one item for each item line
\* and nothing for any other line (a header line included); the category of
\* an item is the most recent header line before its line, or 'General' when
\* no header precedes it.
C26_TextStateMachine ==
    ParsedText =>
        LET lines == Lines(call.args.text)
            itemLines == SelectSeq([i \in 1..Len(lines) |-> i],
                                   LAMBDA i : IsItemLine(lines, i))
            items == call.result.array
        IN /\ Len(items) = Len(itemLines)
           /\ \A k \in 1..Len(itemLines) :
                  /\ items[k].name = Trim(SplitPart0(lines[itemLines[k]]))
                  /\ items[k].category = HeaderBefore(lines, itemLines[k])
           /\ \A k \in 1..Len(items) : \A j \in 1..Len(lines) :
                  IsCategoryHeader(lines[j]) => items[k].name # lines[j]

\* two headers precede a priced line: the item gets the later one
C26_Witness ==
    /\ ParsedText
    /\ call.args.text = <<"TEA & MORE", "COFFEE", "  Green Tea $2.50">>
    /\ Len(call.result.array) = 1
    /\ call.result.array[1].category = "COFFEE"

\* C27: every line with a '$'-prefixed numeric token is split at its first
\* '$': name is the trimmed text before it, price is the whole remainder of the
\* line from that '$' on, also when further '$' follow; the entry is discarded
\* exactly when name has fewer than 3 characters.
C27_SplitAtFirstDollar ==
    ParsedText =>
        LET lines == Lines(call.args.text)
            priced == SelectSeq([i \in 1..Len(lines) |-> i],
                                LAMBDA i : ~IsCategoryHeader(lines[i]) /\ HasPrice(lines[i]))
            kept == SelectSeq(priced, LAMBDA i : Len(Trim(SplitPart0(lines[i]))) >= 3)
            items == call.result.array
        IN /\ Len(items) = Len(kept)
           /\ \A k \in 1..Len(kept) :
                  LET line == lines[kept[k]]
                  IN /\ items[k].name = Trim(SubSeq(line, 1, IndexFrom(line, "$", 1) - 1))
                     /\ items[k].price = SubSeq(line, IndexFrom(line, "$", 1), Len(line))

\* the item looks like leaked script or configuration
Corrupted(item) ==
    \/ \E pattern \in {"window.", "LOCATIONS", "tenant", "coordinates"} :
           Includes(item.name, pattern)
    \/ Len(item.name) > MaxNameLength

\* C28: when any single item the static-page stage extracted is corrupted,
\* the stage throws and returns none of the items, the valid ones included; an
\* empty item list is not flagged corrupted and fails the stage as zero items.
C28_OneCorruptedItemFailsStage ==
    WebsiteCallEnded =>
        LET extracted == WebsiteItems(call.args.doc)
            thrown == "items" \notin DOMAIN call.result
        IN /\ (\E i \in 1..Len(extracted) : Corrupted(extracted[i])) => thrown
           /\ extracted = <<>> => (thrown /\ ~isJavaScriptCode(extracted))
           /\ ~thrown => /\ call.result.items = extracted
                         /\ \A i \in 1..Len(extracted) : ~Corrupted(extracted[i])

\* a valid item was extracted next to a corrupted one, and the stage threw
C28_Witness ==
    /\ WebsiteCallEnded
    /\ "items" \notin DOMAIN call.result
    /\ \E i, j \in 1..Len(WebsiteItems(call.args.doc)) :
           /\ Corrupted(WebsiteItems(call.args.doc)[i])
           /\ ~Corrupted(WebsiteItems(call.args.doc)[j])

\* C29: in the rendered-page stage a category whose tab cannot be clicked, or
\* whose click or extraction throws, is the only one skipped: the stage
\* returns the items of exactly the categories that were clicked and
\* extracted, those before and those after a skipped one, first occurrences
\* kept, and the timeout of the marker wait or of a category's wait for its
\* prices changes nothing of this.
C29_FailedCategorySkippedOnly ==
    (call.op = "fetchWithPuppeteer" /\ call.result # Pending /\ call.args.page.kind = "ok") =>
        LET page == call.args.page
            good == SelectSeq([i \in 1..Len(page.tabs) |-> i],
                              LAMBDA i : /\ page.passes[i].click = "true"
                                         /\ page.passes[i].extract = "ok")
            collected == Flatten([k \in 1..Len(good) |->
                                     CategoryItems(page.tabs[good[k]], page.passes[good[k]].found)])
        IN IF UniqueItems(collected) = <<>> THEN call.result = Null
           ELSE /\ call.result # Null
                /\ call.result.items = UniqueItems(collected)

\* the marker wait timed out, the first category's wait timed out, the second
\* category threw in the extraction, and the items of the first and of the third
\* category are returned
C29_Witness ==
    /\ call.op = "fetchWithPuppeteer"
    /\ call.result \notin {Pending, Null}
    /\ call.args.page.marker = "timeout"
    /\ call.args.page.tabs = <<"COFFEE", "TEA", "JUICE">>
    /\ call.args.page.passes[1].ready = "timeout"
    /\ call.args.page.passes[2].extract = "throw"
    /\ Len(call.result.items) = 2
    /\ call.result.items[1].category = "COFFEE"
    /\ call.result.items[2].category = "JUICE"

\* C30: whenever a cache entry is present, the cache status operation reports
\* a numeric age, cacheAgeMinutes >= 0; the age is null only when no entry is
\* present.
C30_AgeReportedWhenCached ==
    reply.op = "status" =>
        /\ reply.cached => (reply.cacheAgeMinutes # NoNumber /\ reply.cacheAgeMinutes >= 0)
        /\ reply.cacheAgeMinutes = NoNumber => ~reply.cached

\* C31: under every interleaving of queries, acquisition runs and clears,
\* menuCache is null exactly when cacheTimestamp is null; initially both are
\* null and isCacheValid is false.
C31_EntryAndTimestampTogether ==
    /\ menuCache = Null /\ cacheTimestamp = NoNumber /\ ~isCacheValid
    /\ []((menuCache = Null) <=> (cacheTimestamp = NoNumber))

\* a run wrote the cache, the cache was cleared before the run's response was
\* built, and another run is in flight
C31_Witness ==
    /\ menuCache = Null
    /\ cacheTimestamp = NoNumber
    /\ \E q, p \in Queries :
           /\ outcome[q].kind = "fresh"
           /\ pc[p] \in {"api", "launch", "scrape", "website"}

\* C32: the duplicate removal of the rendered-page stage drops an item only
\* if an earlier item has the same name and the same category: the returned
\* list is, in discovery order, every discovered item that no earlier item
\* equals in name and category.
C32_OnlyTrueDuplicatesDropped ==
    (call.op = "fetchWithPuppeteer" /\ call.result # Pending /\ call.args.page.kind = "ok") =>
        LET allItems == AllItems(call.args.page)
            firsts == SelectSeq([k \in 1..Len(allItems) |-> k],
                                LAMBDA k : \A l \in 1..(k - 1) :
                                               ~SameNameAndCategory(allItems[l], allItems[k]))
            items == IF call.result = Null THEN <<>> ELSE call.result.items
        IN items = [k \in 1..Len(firsts) |-> allItems[firsts[k]]]

\* the clear_menu_cache tool or POST /api/cache/clear is handled in this step
Clears == reply = NoReply /\ reply'.op \in {"clear_menu_cache", "cache_clear"}

\* C33: a clear does not cancel an acquisition run in flight: the run stays
\* where it was, and when it succeeds later, no query having started since the
\* clear, it stores its result with updateCache, so that the cache is
\* populated and valid again.
C33_ClearDoesNotCancelRun ==
    [][/\ Clears => UNCHANGED <<pc, apiIdx, browser, stages, outcome>>
       /\ \A q \in Queries :
              (afterClear = "cleared" /\ RunSucceeds(q))
                  => /\ menuCache' # Null
                     /\ menuCache'.items = outcome'[q].data.items
                     /\ cacheTimestamp' = now
                     /\ isCacheValid'
                     /\ afterClear' = "rewritten"]_vars

\* the cache was cleared while a run was in its last stage, the run has
\* succeeded since, and the cache is valid with the run's items
C33_Witness ==
    \E q \in Queries :
        /\ afterClear = "rewritten"
        /\ pc[q] = "done"
        /\ stages[q] = StageOrder
        /\ outcome[q].kind = "fresh"
        /\ isCacheValid
        /\ menuCache.items = outcome[q].data.items

\* q's call of fetchMenuData began before p's, and both are under way
StartedBefore(q, p) ==
    \E i, j \in 1..Len(order) : i < j /\ order[i] = q /\ order[j] = p

\* C34: under every interleaving of overlapping runs and clears the cached
\* snapshot and its timestamp are written together by one updateCache step,
\* so that both come from the same run; the entry is the one of the run whose
\* updateCache executed last, whether that run started before or after the
\* other one.
C34_LastWriterWins ==
    /\ [](menuCache # Null => cacheTimestamp = menuCache.cacheTimestamp)
    /\ [][\A q, p \in Queries :
              (RunSucceeds(q) /\ (p = q \/ StartedBefore(q, p) \/ StartedBefore(p, q)))
                  => /\ menuCache' = Annotated(outcome'[q].data, now)
                     /\ cacheTimestamp' = now
                     /\ cacheTimestamp' = menuCache'.cacheTimestamp]_vars

\* two runs overlapped and both succeeded at different times; the cache holds
\* the entry of the run that started first, which wrote last
C34_Witness ==
    \E q, p \in Queries :
        /\ StartedBefore(q, p)
        /\ outcome[q].kind = "fresh"
        /\ outcome[p].kind = "fresh"
        /\ outcome[p].data.lastUpdated < outcome[q].data.lastUpdated
        /\ menuCache = Annotated(outcome[q].data, cacheTimestamp)
        /\ cacheTimestamp = outcome[q].data.lastUpdated

\* an entry is present and expired
Expired == menuCache # Null /\ ~isCacheValid

C36_NamelessMatchFailsStage ==
    (WebsiteCallEnded /\ Matching(call.args.doc) # {}) =>
        LET elems == call.args.doc.hits[FirstMatching(call.args.doc)]
            named == SelectSeq([i \in 1..Len(elems) |-> i], LAMBDA i : elems[i].name # "")
            result == call.result
        IN /\ named = <<>> => ("items" \notin DOMAIN result /\ result.kind = "throw")
           /\ "items" \in DOMAIN result
                  => /\ Len(result.items) = Len(named)
                     /\ \A k \in 1..Len(named) : result.items[k].name = elems[named[k]].name

\* the first matching selector held only a nameless element, a later selector
\* a named one, the body text a priced line, and the stage threw
C36_Witness ==
    /\ WebsiteCallEnded
    /\ Cardinality(Matching(call.args.doc)) = 2
    /\ ElementItems(call.args.doc.hits[FirstMatching(call.args.doc)]) = <<>>
    /\ \E i \in Matching(call.args.doc) : ElementItems(call.args.doc.hits[i]) # <<>>
    /\ parseMenuFromText(call.args.doc.bodyText) # <<>>
    /\ call.result.kind = "throw"

\* C37: provided every external operation eventually returns or fails, every
\* query that has called fetchMenuData eventually completes with a snapshot
\* (a hit, a stage's result, the entry as fallback) or an error; a run asks
\* each endpoint of the list at most once and invokes at most the three
\* stages, none of them again.
C37_EveryQueryCompletes ==
    /\ [](\A q \in Queries : apiIdx[q] \in 0..NumApiUrls /\ Len(stages[q]) <= Len(StageOrder))
    /\ \A q \in Queries :
           (pc[q] # "idle")
               ~> (pc[q] = "done" /\ outcome[q].kind \in {"hit", "fresh", "stale", "error"})

\* a run asked every endpoint, closed its browser, failed in the static-page
\* stage and completed with an error
C37_Witness ==
    \E q \in Queries :
        /\ pc[q] = "done"
        /\ outcome[q].kind = "error"
        /\ apiIdx[q] = NumApiUrls
        /\ browser[q] = "closed"
        /\ stages[q] = StageOrder

====
